---------------------------- MODULE Spec2Model ----------------------------
(***************************************************************************)
(* A model of redis_cache_example.py: the RedisCache wrapper around the    *)
(* redis client, the cache_result decorator, the cached read handlers and  *)
(* the administrative clear_cache handler.                                 *)
(*                                                                         *)
(* Python values are tagged records, the JSON text json.dumps produces is  *)
(* a tagged JSON document, and the redis server is a map from keys to      *)
(* entries with an absolute expiry time.                                   *)
(***************************************************************************)
EXTENDS Integers, Sequences, FiniteSets, TLC

VARIABLES
    store,   \* the redis database: key -> [doc, exp, orig]
    now,     \* the server's clock, in seconds
    deleted, \* keys removed by a delete and not written since
    last,    \* the last completed call on the global redis_cache / clear_cache
    pc,      \* per request thread: the place in the handler it runs
    loc,     \* per request thread: the handler's local variables
    calls,   \* how often the wrapped function has been invoked
    db       \* the news table: its rows in table order

vars == <<store, now, deleted, last, pc, loc, calls, db>>

----------------------------------------------------------------------------
(* Bounds of the model. *)

\* The clock stops advancing at MaxTime.
MaxTime == 1
\* set is called with a timeout in 0..MaxTTL.
MaxTTL == 2
\* The wrapped function is invoked at most MaxCalls times in a behaviour.
MaxCalls == 2

----------------------------------------------------------------------------
(* Python values. *)

PyNone == [t |-> "None"]
PyBool(b) == [t |-> "bool", b |-> b]
PyInt(n) == [t |-> "int", n |-> n]
PyStr(s) == [t |-> "str", s |-> s]
PyList(items) == [t |-> "list", items |-> items]
PyTuple(items) == [t |-> "tuple", items |-> items]
\* A dict is its items in insertion order, each <<key, value>>, keys distinct.
PyDict(items) == [t |-> "dict", items |-> items]
\* A value json.dumps has no encoding for (a datetime, a set, an ORM row).
PyObject == [t |-> "object"]

\* bool(v): what `if v:` tests.
Truthy(v) ==
    CASE v.t = "None" -> FALSE
      [] v.t = "bool" -> v.b
      [] v.t = "int" -> v.n # 0
      [] v.t = "str" -> v.s # ""
      [] v.t \in {"list", "tuple", "dict"} -> Len(v.items) > 0
      [] OTHER -> TRUE

\* The number a bool or an int compares as (True == 1, False == 0).
NumVal(v) == IF v.t = "bool" THEN (IF v.b THEN 1 ELSE 0) ELSE v.n

RECURSIVE PyEq(_, _)
\* a == b in Python: numbers by value, sequences of one type item by item,
\* dicts by their key/value pairs whatever their order.
PyEq(a, b) ==
    CASE a.t \in {"bool", "int"} /\ b.t \in {"bool", "int"} -> NumVal(a) = NumVal(b)
      [] a.t # b.t -> FALSE
      [] a.t = "None" -> TRUE
      [] a.t = "str" -> a.s = b.s
      [] a.t \in {"list", "tuple"} ->
            /\ Len(a.items) = Len(b.items)
            /\ \A i \in 1..Len(a.items) : PyEq(a.items[i], b.items[i])
      [] a.t = "dict" ->
            /\ Len(a.items) = Len(b.items)
            /\ \A i \in 1..Len(a.items) : \E j \in 1..Len(b.items) :
                   /\ PyEq(a.items[i][1], b.items[j][1])
                   /\ PyEq(a.items[i][2], b.items[j][2])
      [] OTHER -> a = b

----------------------------------------------------------------------------
(* json.dumps and json.loads. *)

Digit(d) == SubSeq("0123456789", d + 1, d + 1)

RECURSIVE IntToStr(_)
\* str(n) for an int.
IntToStr(n) ==
    IF n < 0 THEN "-" \o IntToStr(0 - n)
    ELSE IF n < 10 THEN Digit(n)
    ELSE IntToStr(n \div 10) \o Digit(n % 10)

JNull == [j |-> "null"]
JBool(b) == [j |-> "bool", b |-> b]
JNumber(n) == [j |-> "number", n |-> n]
JString(s) == [j |-> "string", s |-> s]
JArray(items) == [j |-> "array", items |-> items]
\* A JSON object is its members in text order, each <<name, document>>.
JObject(members) == [j |-> "object", members |-> members]
\* A reply that is no JSON text at all.
Garbage == [j |-> "garbage"]

\* The member name json.dumps writes for a dict key; keys other than str, int,
\* bool and None raise TypeError.
JsonKey(k) ==
    CASE k.t = "str" -> [raised |-> FALSE, name |-> k.s]
      [] k.t = "int" -> [raised |-> FALSE, name |-> IntToStr(k.n)]
      [] k.t = "bool" -> [raised |-> FALSE, name |-> IF k.b THEN "true" ELSE "false"]
      [] k.t = "None" -> [raised |-> FALSE, name |-> "null"]
      [] OTHER -> [raised |-> TRUE, name |-> ""]

RECURSIVE dumps(_)
\* json.dumps(value, ensure_ascii=False): [raised, doc].
dumps(v) ==
    CASE v.t = "None" -> [raised |-> FALSE, doc |-> JNull]
      [] v.t = "bool" -> [raised |-> FALSE, doc |-> JBool(v.b)]
      [] v.t = "int" -> [raised |-> FALSE, doc |-> JNumber(v.n)]
      [] v.t = "str" -> [raised |-> FALSE, doc |-> JString(v.s)]
      [] v.t \in {"list", "tuple"} ->
            LET parts == [i \in 1..Len(v.items) |-> dumps(v.items[i])]
            IN  IF \E i \in 1..Len(parts) : parts[i].raised
                THEN [raised |-> TRUE, doc |-> JNull]
                ELSE [raised |-> FALSE,
                      doc |-> JArray([i \in 1..Len(parts) |-> parts[i].doc])]
      [] v.t = "dict" ->
            LET names == [i \in 1..Len(v.items) |-> JsonKey(v.items[i][1])]
                parts == [i \in 1..Len(v.items) |-> dumps(v.items[i][2])]
            IN  IF \E i \in 1..Len(parts) : names[i].raised \/ parts[i].raised
                THEN [raised |-> TRUE, doc |-> JNull]
                ELSE [raised |-> FALSE,
                      doc |-> JObject([i \in 1..Len(parts) |->
                                          <<names[i].name, parts[i].doc>>])]
      [] OTHER -> [raised |-> TRUE, doc |-> JNull]

RECURSIVE DictFromPairs(_, _)
\* dict built by inserting pairs in order: a repeated key keeps its first place
\* and takes the later value.
DictFromPairs(pairs, acc) ==
    IF pairs = <<>> THEN acc
    ELSE LET p == Head(pairs)
             hit == {i \in 1..Len(acc) : acc[i][1] = p[1]}
         IN  IF hit = {}
             THEN DictFromPairs(Tail(pairs), Append(acc, p))
             ELSE DictFromPairs(Tail(pairs),
                                [i \in 1..Len(acc) |-> IF i \in hit THEN p ELSE acc[i]])

RECURSIVE loads(_)
\* json.loads(text): [raised, val]; text that is no JSON raises JSONDecodeError.
loads(d) ==
    CASE d.j = "null" -> [raised |-> FALSE, val |-> PyNone]
      [] d.j = "bool" -> [raised |-> FALSE, val |-> PyBool(d.b)]
      [] d.j = "number" -> [raised |-> FALSE, val |-> PyInt(d.n)]
      [] d.j = "string" -> [raised |-> FALSE, val |-> PyStr(d.s)]
      [] d.j = "array" ->
            [raised |-> FALSE,
             val |-> PyList([i \in 1..Len(d.items) |-> loads(d.items[i]).val])]
      [] d.j = "object" ->
            [raised |-> FALSE,
             val |-> PyDict(DictFromPairs(
                        [i \in 1..Len(d.members) |->
                            <<PyStr(d.members[i][1]), loads(d.members[i][2]).val>>],
                        <<>>))]
      [] OTHER -> [raised |-> TRUE, val |-> PyNone]


----------------------------------------------------------------------------
(* The redis server behind self.client. An entry holds the stored text and  *)
(* its absolute expiry; orig, at and ttl remember the set that wrote it.    *)
(* An entry past its expiry stays in the map until it is overwritten or    *)
(* deleted, and every command treats it as missing.                        *)

\* How a round trip to the server ends: an answer, a connection error or
\* timeout, or (for reads) an answer that is not the text that was stored.
ReadReplies == {"ok", "error", "garbled"}
WriteReplies == {"ok", "error"}

Live(st, t, k) == k \in DOMAIN st /\ t < st[k].exp

\* The state of key k as a command sees it.
KeyState(st, t, k) ==
    IF k \notin DOMAIN st THEN "absent"
    ELSE IF t < st[k].exp THEN "live" ELSE "expired"

Without(st, ks) == [k \in DOMAIN st \ ks |-> st[k]]

With(st, k, e) == [x \in DOMAIN st \cup {k} |-> IF x = k THEN e ELSE st[x]]

\* self.client.get(key): [raised, found, doc].
client_get(st, t, k, o) ==
    CASE o = "error" -> [raised |-> TRUE, found |-> FALSE, doc |-> JNull]
      [] o = "garbled" -> [raised |-> FALSE, found |-> TRUE, doc |-> Garbage]
      [] OTHER ->
            IF Live(st, t, k)
            THEN [raised |-> FALSE, found |-> TRUE, doc |-> st[k].doc]
            ELSE [raised |-> FALSE, found |-> FALSE, doc |-> JNull]

\* A plain SET in place of SETEX: the entry never expires.
client_set_forever(st, t, k, timeout, doc, orig, o) ==
    IF o = "error" \/ timeout <= 0
    THEN [raised |-> TRUE, store |-> st]
    ELSE [raised |-> FALSE,
          store |-> With(st, k, [doc |-> doc, exp |-> t + timeout + 1000000,
                                 orig |-> orig, at |-> t, ttl |-> timeout])]

\* self.client.setex(key, timeout, value_str): [raised, store]. The server
\* rejects a timeout that is not positive.
client_setex(st, t, k, timeout, doc, orig, o) ==
    IF o = "error" \/ timeout <= 0
    THEN [raised |-> TRUE, store |-> st]
    ELSE [raised |-> FALSE,
          store |-> With(st, k, [doc |-> doc, exp |-> t + timeout,
                                 orig |-> orig, at |-> t, ttl |-> timeout])]

\* self.client.delete(*keys): [raised, store].
client_delete(st, ks, o) ==
    IF o = "error"
    THEN [raised |-> TRUE, store |-> st]
    ELSE [raised |-> FALSE, store |-> Without(st, ks)]

\* self.client.exists(key): [raised, count].
client_exists(st, t, k, o) ==
    IF o = "error"
    THEN [raised |-> TRUE, count |-> 0]
    ELSE [raised |-> FALSE, count |-> IF Live(st, t, k) THEN 1 ELSE 0]

----------------------------------------------------------------------------
(* class RedisCache. Each method gives [raised, ret] and, when it writes,   *)
(* the store it leaves.                                                     *)

\* get with its try/except left out: a client or decoding error escapes.
RedisCache_get_unguarded(st, t, k, o) ==
    LET r == client_get(st, t, k, o)
    IN  IF r.raised THEN [raised |-> TRUE, ret |-> PyNone]
        ELSE IF r.found
        THEN LET p == loads(r.doc)
             IN  [raised |-> p.raised, ret |-> p.val]
        ELSE [raised |-> FALSE, ret |-> PyNone]

\* get with json.loads left out: the stored text comes back as a str.
RedisCache_get_raw(st, t, k, o) ==
    LET r == client_get(st, t, k, o)
    IN  IF ~r.raised /\ r.found
        THEN [raised |-> FALSE, ret |-> PyStr("<the stored text>")]
        ELSE [raised |-> FALSE, ret |-> PyNone]

RedisCache_get(st, t, k, o) ==
    LET r == client_get(st, t, k, o)
    IN  IF r.raised THEN [raised |-> FALSE, ret |-> PyNone]
        ELSE IF r.found
        THEN LET p == loads(r.doc)
             IN  IF p.raised THEN [raised |-> FALSE, ret |-> PyNone]
                 ELSE [raised |-> FALSE, ret |-> p.val]
        ELSE [raised |-> FALSE, ret |-> PyNone]

\* set with its try/except left out: a client or encoding error escapes.
RedisCache_set_unguarded(st, t, k, v, timeout, o) ==
    LET d == dumps(v)
        w == client_setex(st, t, k, timeout, d.doc, v, o)
    IN  IF d.raised \/ w.raised
        THEN [raised |-> TRUE, ret |-> FALSE, store |-> st]
        ELSE [raised |-> FALSE, ret |-> TRUE, store |-> w.store]

RedisCache_set(st, t, k, v, timeout, o) ==
    LET d == dumps(v)
    IN  IF d.raised THEN [raised |-> FALSE, ret |-> FALSE, store |-> st]
        ELSE LET w == client_setex(st, t, k, timeout, d.doc, v, o)
             IN  IF w.raised THEN [raised |-> FALSE, ret |-> FALSE, store |-> st]
                 ELSE [raised |-> FALSE, ret |-> TRUE, store |-> w.store]

\* delete in the manner of `del d[key]`: a key the server does not hold is an
\* error.
RedisCache_delete_strict(st, k, o) ==
    LET w == client_delete(st, {k}, o)
    IN  IF w.raised \/ k \notin DOMAIN st
        THEN [raised |-> FALSE, ret |-> FALSE, store |-> st]
        ELSE [raised |-> FALSE, ret |-> TRUE, store |-> w.store]

RedisCache_delete(st, k, o) ==
    LET w == client_delete(st, {k}, o)
    IN  IF w.raised THEN [raised |-> FALSE, ret |-> FALSE, store |-> st]
        ELSE [raised |-> FALSE, ret |-> TRUE, store |-> w.store]

\* exists whose except clause answers True.
RedisCache_exists_optimistic(st, t, k, o) ==
    LET r == client_exists(st, t, k, o)
    IN  IF r.raised THEN [raised |-> FALSE, ret |-> TRUE]
        ELSE [raised |-> FALSE, ret |-> r.count > 0]

RedisCache_exists(st, t, k, o) ==
    LET r == client_exists(st, t, k, o)
    IN  IF r.raised THEN [raised |-> FALSE, ret |-> FALSE]
        ELSE [raised |-> FALSE, ret |-> r.count > 0]

----------------------------------------------------------------------------
(* Request threads, and the state every specification starts from.          *)

Threads == {1, 2}

\* A row of the news table. publish_time is None or a datetime, which is
\* written here by the text its isoformat() gives.
News(id, title, category_id, publish_time) ==
    [id |-> id, title |-> title, content |-> "text " \o IntToStr(id),
     category_id |-> category_id, author |-> "author", publish_time |-> publish_time]

PyDatetime(iso) == [t |-> "datetime", iso |-> iso]

\* The table the handlers start with: two news in category 1, one in 2.
InitialNews ==
    << News(1, "first", 1, PyDatetime("2024-01-01T08:00:00")),
       News(2, "second", 1, PyNone),
       News(3, "third", 2, PyNone) >>

NoCall == [op |-> "none"]
NoLocals == [op |-> "none"]

Init ==
    /\ store = <<>>
    /\ now = 0
    /\ deleted = {}
    /\ last = NoCall
    /\ pc = [t \in Threads |-> "idle"]
    /\ loc = [t \in Threads |-> NoLocals]
    /\ calls = 0
    /\ db = InitialNews

\* The server's clock advances by a second.
Tick ==
    /\ now < MaxTime
    /\ now' = now + 1
    /\ UNCHANGED <<db, store, deleted, last, pc, loc, calls>>

----------------------------------------------------------------------------
(* Spec: callers of the global redis_cache, one method call at a time.      *)

CacheKeys == {"news:detail:1", "news:list:category_1:page_1:size_10"}

ListResult1 ==
    PyDict(<< <<PyStr("list"), PyList(<< PyDict(<< <<PyStr("id"), PyInt(1)>> >>) >>)>>,
              <<PyStr("total"), PyInt(1)>> >>)

\* The values callers pass to set: a result as the handlers build it, a
\* tuple, a dict keyed by an int and a value with no encoding.
CacheValues ==
    { ListResult1,
      PyTuple(<<PyInt(1), PyInt(2)>>),
      PyDict(<< <<PyInt(1), PyStr("a")>> >>),
      PyObject }

TTLs == 0..MaxTTL

\* The timeout given to the set that wrote k has run out.
Elapsed(st, t, k) == k \in DOMAIN st /\ t >= st[k].at + st[k].ttl

\* What a completed call leaves in `last`.
Call(op, k, o, r) ==
    [op |-> op, key |-> k, reply |-> o, prior |-> KeyState(store, now, k),
     elapsed |-> Elapsed(store, now, k), raised |-> r.raised, ret |-> r.ret]

Get(k, o) ==
    \E r \in {RedisCache_get(store, now, k, o)} :
        /\ last' = Call("get", k, o, r)
        /\ UNCHANGED <<db, store, now, deleted, pc, loc, calls>>

Set(k, v, timeout, o) ==
    \E r \in {RedisCache_set(store, now, k, v, timeout, o)} :
        /\ store' = r.store
        /\ deleted' = IF r.ret THEN deleted \ {k} ELSE deleted
        /\ last' = Call("set", k, o, [raised |-> r.raised, ret |-> PyBool(r.ret)])
        /\ UNCHANGED <<db, now, pc, loc, calls>>

Delete(k, o) ==
    \E r \in {RedisCache_delete(store, k, o)} :
        /\ store' = r.store
        /\ deleted' = IF r.ret THEN deleted \cup {k} ELSE deleted
        /\ last' = Call("delete", k, o, [raised |-> r.raised, ret |-> PyBool(r.ret)])
        /\ UNCHANGED <<db, now, pc, loc, calls>>

Exists(k, o) ==
    \E r \in {RedisCache_exists(store, now, k, o)} :
        /\ last' = Call("exists", k, o, [raised |-> r.raised, ret |-> PyBool(r.ret)])
        /\ UNCHANGED <<db, store, now, deleted, pc, loc, calls>>

Next ==
    \/ \E k \in CacheKeys, o \in ReadReplies : Get(k, o)
    \/ \E k \in CacheKeys, v \in CacheValues, timeout \in TTLs, o \in WriteReplies :
          Set(k, v, timeout, o)
    \/ \E k \in CacheKeys, o \in WriteReplies : Delete(k, o)
    \/ \E k \in CacheKeys, o \in WriteReplies : Exists(k, o)
    \/ Tick

Spec == Init /\ [][Next]_vars

----------------------------------------------------------------------------
(* Properties of RedisCache, checked under Spec.                            *)

RECURSIVE JsonFaithful(_)
\* v is made of None, bools, ints, strs, lists and dicts keyed by strs only:
\* the values JSON text represents without changing their type.
JsonFaithful(v) ==
    CASE v.t \in {"None", "bool", "int", "str"} -> TRUE
      [] v.t = "list" -> \A i \in 1..Len(v.items) : JsonFaithful(v.items[i])
      [] v.t = "dict" ->
            \A i \in 1..Len(v.items) :
                v.items[i][1].t = "str" /\ JsonFaithful(v.items[i][2])
      [] OTHER -> FALSE

\* The last call was a get the server answered, for a key that a set wrote
\* (set returned true), with no delete or later set of the key since, and
\* issued before that set's timeout ran out.
GetAfterSet ==
    /\ last.op = "get"
    /\ last.reply = "ok"
    /\ last.key \in DOMAIN store
    /\ ~last.elapsed

\* C1 as stated: set(k, v, ttl) followed by get(k) before ttl elapses returns
\* a value equal to v, for every value v that set accepts.
C1_RoundTripAnyValue ==
    GetAfterSet => (~last.raised /\ PyEq(last.ret, store[last.key].orig))

\* C1, amended: set(k, v, ttl) that returned true, followed by a get(k) the
\* server answers before ttl elapses, returns a value equal to v when v is
\* made of None, bools, ints, strs, lists and str-keyed dicts.
C1_RoundTrip ==
    (GetAfterSet /\ JsonFaithful(store[last.key].orig))
        => (~last.raised /\ PyEq(last.ret, store[last.key].orig))

C1_Witness ==
    /\ GetAfterSet
    /\ JsonFaithful(store[last.key].orig)
    /\ store[last.key].at < now
    /\ PyEq(last.ret, store[last.key].orig)

\* C4: get never raises; when the server fails or answers with text that is
\* not JSON, get returns None, as it does for a key that is not there.
C4_GetNeverRaises ==
    last.op = "get" =>
        /\ ~last.raised
        /\ last.reply \in {"error", "garbled"} => last.ret = PyNone
        /\ (last.reply = "ok" /\ last.prior # "live") => last.ret = PyNone

C4_Witness ==
    /\ last.op = "get"
    /\ last.reply = "garbled"
    /\ last.prior = "live"
    /\ last.ret = PyNone

\* C6: after a delete(k) the server answered, whatever k's state was before,
\* delete has returned true and k is gone; a get(k) with no set in between
\* returns None; and a second delete returns true and changes nothing.
C6_DeleteThenGet ==
    /\ (last.op = "delete" /\ last.reply = "ok") =>
          /\ ~last.raised
          /\ last.ret = PyBool(TRUE)
          /\ last.key \notin DOMAIN store
    /\ (last.op = "get" /\ last.key \in deleted) =>
          (~last.raised /\ last.ret = PyNone)
    /\ \A k \in CacheKeys :
          LET once == RedisCache_delete(store, k, "ok")
              twice == RedisCache_delete(once.store, k, "ok")
          IN  /\ once.ret /\ twice.ret
              /\ ~once.raised /\ ~twice.raised
              /\ twice.store = once.store

C6_Witness ==
    /\ last.op = "get"
    /\ last.reply = "ok"
    /\ last.key \in deleted
    /\ last.ret = PyNone

\* C7: a get(k) issued once the timeout of the set that wrote k has run out,
\* with k not written again, returns None.
C7_ExpiredIsAbsent ==
    (last.op = "get" /\ last.elapsed) => (~last.raised /\ last.ret = PyNone)

C7_Witness ==
    /\ last.op = "get"
    /\ last.reply = "ok"
    /\ last.elapsed
    /\ last.ret = PyNone

\* C11: exists never raises; it returns true only when the store answered
\* and the key was present (live) at that moment, and it returns false
\* whenever the store failed, whatever the key's state.
C11_ExistsFailsClosed ==
    last.op = "exists" =>
        /\ ~last.raised
        /\ last.ret \in {PyBool(TRUE), PyBool(FALSE)}
        /\ (last.ret = PyBool(TRUE) => last.reply = "ok" /\ last.prior = "live")
        /\ (last.reply = "error" => last.ret = PyBool(FALSE))

C11_Witness ==
    /\ last.op = "exists"
    /\ last.reply = "error"
    /\ last.prior = "live"
    /\ last.ret = PyBool(FALSE)
    /\ ~last.raised

----------------------------------------------------------------------------
(* cache_result: a function decorated with                                  *)
(*     @cache_result(timeout=DecoratorTimeout, key_prefix="news")           *)
(* and called by the request threads. A call runs in three steps, each one  *)
(* round trip or one invocation: redis_cache.get, func, redis_cache.set.    *)

\* The timeout the decorator is given, in seconds.
DecoratorTimeout == 1

key_prefix == "news"
func_name == "get_categories"

RECURSIVE JoinInts(_)
\* "1, 2, 3" for a sequence of ints.
JoinInts(xs) ==
    IF Len(xs) = 0 THEN ""
    ELSE IF Len(xs) = 1 THEN IntToStr(xs[1])
    ELSE IntToStr(xs[1]) \o ", " \o JoinInts(Tail(xs))

\* str(args) for a tuple of ints: "()", "(1,)", "(1, 2)".
ReprArgs(args) ==
    IF Len(args) = 1 THEN "(" \o IntToStr(args[1]) \o ",)"
    ELSE "(" \o JoinInts(args) \o ")"

RECURSIVE JoinItems(_)
\* "'a': 1, 'b': 2" for keyword arguments <<name, int>>.
JoinItems(kw) ==
    IF Len(kw) = 0 THEN ""
    ELSE LET item == "'" \o kw[1][1] \o "': " \o IntToStr(kw[1][2])
         IN  IF Len(kw) = 1 THEN item ELSE item \o ", " \o JoinItems(Tail(kw))

\* str(kwargs) for a dict of ints.
ReprKwargs(kw) == "{" \o JoinItems(kw) \o "}"

\* cache_key = f"{key_prefix}:{func.__name__}:{args}:{kwargs}"
cache_key(args, kwargs) ==
    key_prefix \o ":" \o func_name \o ":" \o ReprArgs(args) \o ":" \o ReprKwargs(kwargs)

\* The arguments the threads call the decorated function with.
WrapperCalls ==
    { [args |-> <<1>>, kwargs |-> <<>>],
      [args |-> <<>>, kwargs |-> << <<"id", 2>> >>] }

Categories1 ==
    PyDict(<< <<PyStr("code"), PyInt(200)>>,
              <<PyStr("data"), PyList(<< PyDict(<< <<PyStr("id"), PyInt(1)>> >>) >>)>> >>)

\* How an invocation of the wrapped function ends: it returns a result of
\* the handlers' shape, an empty list or a value json has no encoding for, or
\* it raises.
FuncOutcomes ==
    { [raised |-> FALSE, val |-> v] :
          v \in {Categories1, PyList(<<>>), PyObject} }
    \cup { [raised |-> TRUE, val |-> PyNone] }

\* `if cached_result:`
is_hit(cached_result) == Truthy(cached_result)

\* A wrapper that swallows the function's exception and goes on with None.
after_func_swallow(out) ==
    [raised |-> FALSE, result |-> out.val, next |-> "w_set"]

\* A wrapper that calls the function again when it raises.
after_func_retry(out) ==
    IF out.raised
    THEN [raised |-> FALSE, result |-> PyNone, next |-> "w_call"]
    ELSE [raised |-> FALSE, result |-> out.val, next |-> "w_set"]

\* result = func(*args, **kwargs): an exception leaves the wrapper at once.
after_func(out) ==
    IF out.raised
    THEN [raised |-> TRUE, result |-> PyNone, next |-> "done"]
    ELSE [raised |-> FALSE, result |-> out.val, next |-> "w_set"]

\* The wrapper storing the variable it read from the cache.
stored_value_cached(l) == l.cached

\* The value redis_cache.set is given: result.
stored_value(l) == l.result

\* What `wrote` holds while a call has stored nothing.
NoWrite == [t |-> "nothing"]

\* The threads that have missed on key k and not yet returned.
InFlight(k) ==
    {u \in Threads : pc[u] \in {"w_call", "w_set"} /\ loc[u].key = k}

\* loc once thread t has begun a new call with locals l: the call t ran
\* before is no longer anyone's rival.
Begin(t, l) ==
    [u \in Threads |->
        IF u = t THEN l
        ELSE IF loc[u].op = "wrapper"
        THEN [loc[u] EXCEPT !.rivals = @ \ {t}]
        ELSE loc[u]]

\* wrapper(*args, **kwargs) up to its first return or to the invocation of
\* func: the key, the lookup and the test of what came back. prior, rivals
\* and left record what the call met and what it left behind, wrote the
\* value its set put in the store.
W_Get(t, c, o) ==
    /\ pc[t] \in {"idle", "done"}
    /\ \E k \in {cache_key(c.args, c.kwargs)} :
       \E g \in {RedisCache_get(store, now, k, o)} :
       \E l \in {[op |-> "wrapper", key |-> k, reply_get |-> o,
                  prior |-> KeyState(store, now, k),
                  rivals |-> InFlight(k) \ {t},
                  cached |-> g.ret, invoked |-> 0, func_raised |-> FALSE,
                  result |-> PyNone, reply_set |-> "none", set_ret |-> FALSE,
                  raised |-> g.raised, ret |-> PyNone,
                  left |-> KeyState(store, now, k), wrote |-> NoWrite]} :
          IF g.raised
          THEN /\ pc' = [pc EXCEPT ![t] = "done"]
               /\ loc' = Begin(t, l)
          ELSE IF is_hit(g.ret)
          THEN /\ pc' = [pc EXCEPT ![t] = "done"]
               /\ loc' = Begin(t, [l EXCEPT !.ret = g.ret])
          ELSE /\ pc' = [pc EXCEPT ![t] = "w_call"]
               /\ loc' = Begin(t, l)
    /\ UNCHANGED <<db, store, now, deleted, last, calls>>

\* result = func(*args, **kwargs)
W_Call(t, out) ==
    /\ pc[t] = "w_call"
    /\ calls < MaxCalls
    /\ calls' = calls + 1
    /\ \E a \in {after_func(out)} :
          /\ pc' = [pc EXCEPT ![t] = a.next]
          /\ loc' = [loc EXCEPT ![t] =
                        [@ EXCEPT !.invoked = @ + 1, !.func_raised = out.raised,
                                  !.result = a.result, !.raised = a.raised,
                                  !.left = KeyState(store, now, loc[t].key)]]
    /\ UNCHANGED <<db, store, now, deleted, last>>

\* redis_cache.set(cache_key, result, timeout=timeout); return result
W_Set(t, o) ==
    /\ pc[t] = "w_set"
    /\ \E r \in {RedisCache_set(store, now, loc[t].key, stored_value(loc[t]),
                                DecoratorTimeout, o)} :
          /\ store' = r.store
          /\ deleted' = IF r.ret THEN deleted \ {loc[t].key} ELSE deleted
          /\ pc' = [pc EXCEPT ![t] = "done"]
          /\ loc' = [loc EXCEPT ![t] =
                        [@ EXCEPT !.reply_set = o, !.set_ret = r.ret,
                                  !.raised = r.raised,
                                  !.ret = IF r.raised THEN PyNone ELSE loc[t].result,
                                  !.left = KeyState(r.store, now, loc[t].key),
                                  !.wrote = IF r.ret THEN r.store[loc[t].key].orig
                                            ELSE NoWrite]]
    /\ UNCHANGED <<db, now, last, calls>>

NextWrapper ==
    \/ \E t \in Threads, c \in WrapperCalls, o \in WriteReplies : W_Get(t, c, o)
    \/ \E t \in Threads, out \in FuncOutcomes : W_Call(t, out)
    \/ \E t \in Threads, o \in WriteReplies : W_Set(t, o)
    \/ Tick

SpecWrapper == Init /\ [][NextWrapper]_vars

----------------------------------------------------------------------------
(* Properties of cache_result, checked under SpecWrapper.                   *)

\* Thread t runs or has finished a wrapper call.
InWrapper(t) == loc[t].op = "wrapper"

\* C2: whenever the key is present in the store when the wrapper looks it
\* up, the wrapper does not invoke the wrapped function.
C2_PresentKeySkipsFunc ==
    \A t \in Threads :
        (InWrapper(t) /\ loc[t].reply_get = "ok" /\ loc[t].prior = "live")
            => loc[t].invoked = 0

\* C3 as stated: when the wrapped function raises on a miss (the key was not
\* in the store), the store holds no entry for the call's key when the call
\* ends.
C3_NoEntryAfterRaise ==
    \A t \in Threads :
        (InWrapper(t) /\ loc[t].func_raised /\ loc[t].reply_get = "ok"
                      /\ loc[t].prior = "absent")
            => loc[t].left # "live"

\* C3, amended: when the wrapped function raises, the wrapper ends at once
\* with that failure and never calls set: the call itself writes nothing.
C3_RaiseWritesNothing ==
    \A t \in Threads :
        (InWrapper(t) /\ loc[t].func_raised) =>
            /\ pc[t] = "done"
            /\ loc[t].raised
            /\ loc[t].reply_set = "none"
            /\ ~loc[t].set_ret

C3_Witness ==
    \E t \in Threads :
        /\ InWrapper(t)
        /\ loc[t].func_raised
        /\ loc[t].prior = "absent"
        /\ pc[t] = "done"
        /\ loc[t].raised
        /\ loc[t].left = "absent"

\* Thread t's call has finished after a true miss (the key was not in the
\* store), one invocation of the function and one call of set.
MissedAndStored(t) ==
    /\ InWrapper(t)
    /\ pc[t] = "done"
    /\ loc[t].prior # "live"
    /\ loc[t].invoked = 1
    /\ loc[t].reply_set # "none"

\* The entry under k is the whole result of thread t's computation.
HoldsResultOf(t, k) ==
    /\ loc[t].set_ret
    /\ k \in DOMAIN store
    /\ store[k].doc = dumps(loc[t].result).doc
    /\ store[k].orig = loc[t].result

\* Thread t2 looked the key up while t1, having missed on it, had not yet
\* returned.
Raced(t1, t2) == t1 \in loc[t2].rivals /\ loc[t1].key = loc[t2].key

\* C9: when two calls with the same arguments run concurrently, both miss and
\* both compute, then once both have finished the entry under their key is
\* the whole result of one of the two computations whose set succeeded, and
\* the key is missing when neither set succeeded.
C9_RaceKeepsWholeResult ==
    \A t1, t2 \in Threads :
        (t1 # t2 /\ MissedAndStored(t1) /\ MissedAndStored(t2)
                 /\ Raced(t1, t2)) =>
            IF loc[t1].set_ret \/ loc[t2].set_ret
            THEN HoldsResultOf(t1, loc[t1].key) \/ HoldsResultOf(t2, loc[t1].key)
            ELSE ~Live(store, now, loc[t1].key)

C9_Witness ==
    \E t1, t2 \in Threads :
        /\ t1 # t2
        /\ MissedAndStored(t1) /\ MissedAndStored(t2)
        /\ Raced(t1, t2)
        /\ loc[t1].prior = "absent" /\ loc[t2].prior = "absent"
        /\ loc[t1].set_ret /\ loc[t2].set_ret
        /\ loc[t1].result # loc[t2].result
        /\ HoldsResultOf(t1, loc[t1].key)
        /\ calls = 2

\* C10: when the wrapper's set fails (the server fails, or the result has no
\* JSON encoding), the call still returns the computed result and raises
\* nothing.
C10_SetFailureNotFatal ==
    \A t \in Threads :
        (InWrapper(t) /\ loc[t].reply_set # "none" /\ ~loc[t].set_ret) =>
            /\ pc[t] = "done"
            /\ ~loc[t].raised
            /\ loc[t].invoked = 1
            /\ loc[t].ret = loc[t].result

C10_Witness ==
    \E t \in Threads :
        /\ InWrapper(t)
        /\ loc[t].reply_set = "ok"
        /\ ~loc[t].set_ret
        /\ loc[t].result = PyObject
        /\ loc[t].ret = PyObject


\* Thread t's call of the wrapper missed: the lookup gave nothing the
\* wrapper takes for a cached result.
Missed(t) == InWrapper(t) /\ ~loc[t].raised /\ ~is_hit(loc[t].cached)

\* C12: a call of the wrapper that missed invokes the function once and
\* never again; it calls set only after that invocation has returned, the
\* value its set stores is the invocation's result, and so is the value the
\* call returns.
C12_InvokesExactlyOnce ==
    \A t \in Threads :
        (InWrapper(t) /\ ~is_hit(loc[t].cached)) =>
            /\ loc[t].invoked <= 1
            /\ (pc[t] \in {"w_set", "done"} => loc[t].invoked = 1)
            /\ (pc[t] = "w_call" => loc[t].invoked = 0 /\ loc[t].reply_set = "none")
            /\ (loc[t].reply_set # "none" => loc[t].invoked = 1 /\ ~loc[t].func_raised)
            /\ (loc[t].wrote # NoWrite => loc[t].wrote = loc[t].result)
            /\ ((pc[t] = "done" /\ ~loc[t].raised) => loc[t].ret = loc[t].result)

C12_Witness ==
    \E t \in Threads :
        /\ Missed(t)
        /\ pc[t] = "done"
        /\ loc[t].prior = "absent"
        /\ loc[t].invoked = 1
        /\ loc[t].result = Categories1
        /\ loc[t].wrote = Categories1
        /\ loc[t].ret = Categories1
        /\ calls = 1

----------------------------------------------------------------------------
(* The cached read handlers get_news_list and get_news_detail. Each runs in *)
(* three steps: redis_cache.get, the database query, redis_cache.set.       *)

\* timeout=300 of get_news_list and timeout=3600 of get_news_detail.
ListTimeout == 300
DetailTimeout == 3600

\* f"news:list:category_{category_id}:page_{page}:size_{page_size}"
list_cache_key(category_id, page, page_size) ==
    "news:list:category_" \o IntToStr(category_id) \o ":page_" \o IntToStr(page)
        \o ":size_" \o IntToStr(page_size)

\* f"news:detail:{id}"
detail_cache_key(id) == "news:detail:" \o IntToStr(id)

\* news.publish_time.isoformat() if news.publish_time else None
isoformat_or_none(publish_time) ==
    IF publish_time = PyNone THEN PyNone ELSE PyStr(publish_time.iso)

\* The dict get_news_list builds for a row.
list_item(news) ==
    PyDict(<< <<PyStr("id"), PyInt(news.id)>>,
              <<PyStr("title"), PyStr(news.title)>>,
              <<PyStr("content"), PyStr(news.content)>>,
              <<PyStr("category_id"), PyInt(news.category_id)>>,
              <<PyStr("publish_time"), isoformat_or_none(news.publish_time)>> >>)

\* The dict get_news_detail builds for a row.
detail_item(news) ==
    PyDict(<< <<PyStr("id"), PyInt(news.id)>>,
              <<PyStr("title"), PyStr(news.title)>>,
              <<PyStr("content"), PyStr(news.content)>>,
              <<PyStr("category_id"), PyInt(news.category_id)>>,
              <<PyStr("author"), PyStr(news.author)>>,
              <<PyStr("publish_time"), isoformat_or_none(news.publish_time)>> >>)

RECURSIVE Filter(_, _)
\* The rows of the table in category_id, in table order.
Filter(rows, category_id) ==
    IF rows = <<>> THEN <<>>
    ELSE IF Head(rows).category_id = category_id
    THEN <<Head(rows)>> \o Filter(Tail(rows), category_id)
    ELSE Filter(Tail(rows), category_id)

\* db.query(News).filter(News.category_id == category_id)
\*   .offset((page - 1) * page_size).limit(page_size).all()
query_news_list(rows, category_id, page, page_size) ==
    LET found == Filter(rows, category_id)
        offset == (page - 1) * page_size
        upto == IF offset + page_size < Len(found) THEN offset + page_size ELSE Len(found)
    IN  SubSeq(found, offset + 1, upto)

\* result_data = {"list": news_data, "total": len(news_data)}
list_result_data(news_list) ==
    PyDict(<< <<PyStr("list"),
                PyList([i \in 1..Len(news_list) |-> list_item(news_list[i])])>>,
              <<PyStr("total"), PyInt(Len(news_list))>> >>)

\* db.query(News).filter(News.id == id).first(): the rows with that id.
query_news(rows, id) == SelectSeq(rows, LAMBDA n : n.id = id)

\* {"code": 200, "data": data, "from_cache": from_cache}
response_ok(data, from_cache) ==
    PyDict(<< <<PyStr("code"), PyInt(200)>>,
              <<PyStr("data"), data>>,
              <<PyStr("from_cache"), PyBool(from_cache)>> >>)

\* {"code": 404, "message": "新闻不存在"}
response_not_found ==
    PyDict(<< <<PyStr("code"), PyInt(404)>>,
              <<PyStr("message"), PyStr("news not found")>> >>)

\* The handlers that change the news table.
WriteOps == {"create_news", "update_news", "delete_news"}

\* The threads that are inside a handler that changes the news table.
Writing == {u \in Threads : loc[u].op \in WriteOps /\ pc[u] # "done"}

\* The locals of a handler that has just looked key k up, with reply o and
\* outcome g of redis_cache.get. writers, epoch and store0 record what the
\* call began with: the writing handlers in flight, the number of writing
\* requests made so far, and the store (kept until the call writes).
HandlerLocals(op, params, k, o, g) ==
    [op |-> op, params |-> params, key |-> k, reply_get |-> o,
     prior |-> KeyState(store, now, k), cached |-> g.ret,
     read |-> <<>>, result |-> PyNone, reply_set |-> "none", set_ret |-> FALSE,
     raised |-> g.raised, ret |-> PyNone,
     writers |-> Writing, epoch |-> calls, store0 |-> store]

\* A handler's lookup: redis_cache.get and `if cached:`; a hit returns the
\* cached data with from_cache True, a miss goes on to the query at `next`.
H_Get(t, op, params, k, o, next) ==
    /\ pc[t] \in {"idle", "done"}
    /\ \E g \in {RedisCache_get(store, now, k, o)} :
       \E l \in {HandlerLocals(op, params, k, o, g)} :
          IF g.raised
          THEN /\ pc' = [pc EXCEPT ![t] = "done"]
               /\ loc' = [loc EXCEPT ![t] = l]
          ELSE IF Truthy(g.ret)
          THEN /\ pc' = [pc EXCEPT ![t] = "done"]
               /\ loc' = [loc EXCEPT ![t] =
                             [l EXCEPT !.ret = response_ok(g.ret, TRUE)]]
          ELSE /\ pc' = [pc EXCEPT ![t] = next]
               /\ loc' = [loc EXCEPT ![t] = l]
    /\ UNCHANGED <<db, store, now, deleted, last, calls>>

\* A handler's write and return: redis_cache.set(cache_key, data, timeout)
\* and the response with from_cache False.
H_Set(t, at, timeout, o) ==
    /\ pc[t] = at
    /\ \E r \in {RedisCache_set(store, now, loc[t].key, loc[t].result, timeout, o)} :
          /\ store' = r.store
          /\ deleted' = IF r.ret THEN deleted \ {loc[t].key} ELSE deleted
          /\ pc' = [pc EXCEPT ![t] = "done"]
          /\ loc' = [loc EXCEPT ![t] =
                        [@ EXCEPT !.reply_set = o, !.set_ret = r.ret,
                                  !.raised = r.raised,
                                  !.ret = IF r.raised THEN PyNone
                                          ELSE response_ok(loc[t].result, FALSE),
                                  !.store0 = <<>>]]
    /\ UNCHANGED <<db, now, last, calls>>

\* get_news_list: the key and the lookup.
L_Get(t, q, o) ==
    H_Get(t, "get_news_list", q,
          list_cache_key(q.category_id, q.page, q.page_size), o, "l_query")

\* get_news_list: the query and the building of result_data.
L_Query(t) ==
    /\ pc[t] = "l_query"
    /\ \E found \in {query_news_list(db, loc[t].params.category_id,
                                    loc[t].params.page, loc[t].params.page_size)} :
          loc' = [loc EXCEPT ![t] =
                     [@ EXCEPT !.read = found, !.result = list_result_data(found)]]
    /\ pc' = [pc EXCEPT ![t] = "l_set"]
    /\ UNCHANGED <<db, store, now, deleted, last, calls>>

\* get_news_list: the write and the return.
L_Set(t, o) == H_Set(t, "l_set", ListTimeout, o)

\* get_news_detail: the key and the lookup.
D_Get(t, q, o) == H_Get(t, "get_news_detail", q, detail_cache_key(q.id), o, "d_query")

\* get_news_detail: the query; no row gives the 404 response at once.
D_Query(t) ==
    /\ pc[t] = "d_query"
    /\ \E found \in {query_news(db, loc[t].params.id)} :
          IF found = <<>>
          THEN /\ pc' = [pc EXCEPT ![t] = "done"]
               /\ loc' = [loc EXCEPT ![t] =
                             [@ EXCEPT !.read = found, !.ret = response_not_found]]
          ELSE /\ pc' = [pc EXCEPT ![t] = "d_set"]
               /\ loc' = [loc EXCEPT ![t] =
                             [@ EXCEPT !.read = found,
                                       !.result = detail_item(found[1])]]
    /\ UNCHANGED <<db, store, now, deleted, last, calls>>

\* get_news_detail: the write and the return.
D_Set(t, o) == H_Set(t, "d_set", DetailTimeout, o)

----------------------------------------------------------------------------
(* SpecRead: one request at a time reads through the cache: the two read    *)
(* handlers and the decorated function, with a store that may fail at any   *)
(* round trip.                                                              *)

Reader == 1

\* The requests made of get_news_list and get_news_detail.
ListQueries ==
    { [category_id |-> 1, page |-> 1, page_size |-> 1],
      [category_id |-> 1, page |-> 2, page_size |-> 1],
      [category_id |-> 2, page |-> 1, page_size |-> 10] }

DetailQueries == { [id |-> 1], [id |-> 4] }

ReadCalls == { [args |-> <<1>>, kwargs |-> <<>>] }

NextRead ==
    \/ \E q \in ListQueries, o \in WriteReplies : L_Get(Reader, q, o)
    \/ L_Query(Reader)
    \/ \E o \in WriteReplies : L_Set(Reader, o)
    \/ \E q \in DetailQueries, o \in WriteReplies : D_Get(Reader, q, o)
    \/ D_Query(Reader)
    \/ \E o \in WriteReplies : D_Set(Reader, o)
    \/ \E c \in ReadCalls, o \in WriteReplies : W_Get(Reader, c, o)
    \/ \E out \in FuncOutcomes : W_Call(Reader, out)
    \/ \E o \in WriteReplies : W_Set(Reader, o)

SpecRead == Init /\ [][NextRead]_vars

\* Every round trip to the store that thread t's call made has failed.
Outage(t) ==
    /\ pc[t] = "done"
    /\ loc[t].reply_get = "error"
    /\ loc[t].reply_set \in {"none", "error"}

\* C5: when every store operation of a call fails, get_news_list and
\* get_news_detail raise nothing and answer what the database holds, with
\* code 200 and from_cache False (404 for an id the table does not hold), and
\* a decorated function is invoked once and its outcome is the call's outcome.
C5_OutageIsInvisible ==
    \A t \in Threads :
        Outage(t) =>
            CASE loc[t].op = "get_news_list" ->
                    /\ ~loc[t].raised
                    /\ loc[t].ret =
                          response_ok(list_result_data(query_news_list(db,
                              loc[t].params.category_id, loc[t].params.page,
                              loc[t].params.page_size)), FALSE)
              [] loc[t].op = "get_news_detail" ->
                    /\ ~loc[t].raised
                    /\ loc[t].ret =
                          IF \E i \in 1..Len(db) : db[i].id = loc[t].params.id
                          THEN response_ok(detail_item(
                                   db[CHOOSE i \in 1..Len(db) :
                                          db[i].id = loc[t].params.id]), FALSE)
                          ELSE response_not_found
              [] OTHER ->
                    /\ loc[t].invoked = 1
                    /\ loc[t].raised = loc[t].func_raised
                    /\ ~loc[t].raised => loc[t].ret = loc[t].result

C5_Witness ==
    /\ Outage(Reader)
    /\ loc[Reader].op = "get_news_list"
    /\ loc[Reader].reply_set = "error"
    /\ loc[Reader].key \notin DOMAIN store
    /\ Len(loc[Reader].read) = 1
    /\ \E k \in DOMAIN store : store[k].ttl = DetailTimeout

----------------------------------------------------------------------------
(* clear_cache, the administrative handler, and SpecClear: one              *)
(* administrator request at a time on a store the handlers have filled.     *)

Ch(s, i) == SubSeq(s, i, i)

RECURSIVE GlobFrom(_, _, _, _)
\* The server's glob match of pattern p from position i against key s from
\* position j: '*' stands for any run of characters, '?' for any one; the
\* patterns given here hold no '[' class and no backslash.
GlobFrom(p, i, s, j) ==
    IF i > Len(p) THEN j > Len(s)
    ELSE IF Ch(p, i) = "*"
    THEN GlobFrom(p, i + 1, s, j) \/ (j <= Len(s) /\ GlobFrom(p, i, s, j + 1))
    ELSE IF Ch(p, i) = "?"
    THEN j <= Len(s) /\ GlobFrom(p, i + 1, s, j + 1)
    ELSE j <= Len(s) /\ Ch(s, j) = Ch(p, i) /\ GlobFrom(p, i + 1, s, j + 1)

Glob(p, s) == GlobFrom(p, 1, s, 1)

\* KEYS that answers with every key, whatever the pattern.
client_keys_all(st, t, pattern, o) ==
    IF o = "error"
    THEN [raised |-> TRUE, keys |-> {}]
    ELSE [raised |-> FALSE, keys |-> {k \in DOMAIN st : Live(st, t, k)}]

\* self.client.keys(pattern): [raised, keys], the live keys that match.
client_keys(st, t, pattern, o) ==
    IF o = "error"
    THEN [raised |-> TRUE, keys |-> {}]
    ELSE [raised |-> FALSE,
          keys |-> {k \in DOMAIN st : Live(st, t, k) /\ Glob(pattern, k)}]

\* self.client.flushdb(): [raised, store].
client_flushdb(st, o) ==
    IF o = "error"
    THEN [raised |-> TRUE, store |-> st]
    ELSE [raised |-> FALSE, store |-> <<>>]

Admin == 1

\* The keys the store may hold when the administrator calls: list pages of
\* categories 3, 33 and 1, a detail entry and a decorated function's entry.
ClearKeys ==
    { list_cache_key(3, 1, 10), list_cache_key(3, 2, 10), list_cache_key(33, 1, 10),
      list_cache_key(1, 1, 10), detail_cache_key(3), cache_key(<<1>>, <<>>) }

\* The patterns the administrator gives.
Patterns ==
    { "*", "news:list:category_3:*", "news:list:category_3*", "news:detail:*",
      "news:list:category_?:page_1:size_10", "sessions:*" }

\* A clear_cache whose try does not catch the store's exception.
clear_cache_result_uncaught(failed) ==
    IF failed THEN [raised |-> TRUE, code |-> 0] ELSE [raised |-> FALSE, code |-> 200]

\* How clear_cache ends: `except Exception` turns a failure of the store
\* into the code 500 response.
clear_cache_result(failed) ==
    IF failed THEN [raised |-> FALSE, code |-> 500] ELSE [raised |-> FALSE, code |-> 200]

\* What a finished clear_cache leaves in `last`: whether a round trip
\* failed, whether the call raised, the response's code and cleared count,
\* and the store and time the call began with.
Cleared(l, failed, n) ==
    [op |-> "clear_cache", pattern |-> l.pattern, failed |-> failed,
     raised |-> clear_cache_result(failed).raised,
     code |-> clear_cache_result(failed).code, cleared |-> n,
     before |-> l.before, began |-> l.began]

\* clear_cache(pattern) up to its first return or to the DEL: flushdb for
\* "*", else keys(pattern) and `if keys:`.
C_Keys(pattern, o) ==
    /\ pc[Admin] \in {"idle", "done"}
    /\ \E l \in {[op |-> "clear_cache", pattern |-> pattern, before |-> store,
                  began |-> now, keys |-> {}]} :
          IF pattern = "*"
          THEN \E f \in {client_flushdb(store, o)} :
                  /\ store' = f.store
                  /\ deleted' = IF f.raised THEN deleted ELSE deleted \cup DOMAIN store
                  /\ pc' = [pc EXCEPT ![Admin] = "done"]
                  /\ loc' = [loc EXCEPT ![Admin] = l]
                  /\ last' = Cleared(l, f.raised, 0)
          ELSE \E r \in {client_keys(store, now, pattern, o)} :
                  /\ UNCHANGED <<store, deleted>>
                  /\ loc' = [loc EXCEPT ![Admin] = [l EXCEPT !.keys = r.keys]]
                  /\ IF r.raised
                     THEN /\ pc' = [pc EXCEPT ![Admin] = "done"]
                          /\ last' = Cleared(l, TRUE, 0)
                     ELSE IF r.keys # {}
                     THEN /\ pc' = [pc EXCEPT ![Admin] = "c_delete"]
                          /\ last' = last
                     ELSE /\ pc' = [pc EXCEPT ![Admin] = "done"]
                          /\ last' = Cleared(l, FALSE, 0)
    /\ UNCHANGED <<db, now, calls>>

\* redis_cache.client.delete(*keys) and the return.
C_Delete(o) ==
    /\ pc[Admin] = "c_delete"
    /\ \E w \in {client_delete(store, loc[Admin].keys, o)} :
          /\ store' = w.store
          /\ deleted' = IF w.raised THEN deleted ELSE deleted \cup loc[Admin].keys
          /\ last' = Cleared(loc[Admin], w.raised,
                             IF w.raised THEN 0 ELSE Cardinality(loc[Admin].keys))
    /\ pc' = [pc EXCEPT ![Admin] = "done"]
    /\ UNCHANGED <<db, now, loc, calls>>

\* The entry a handler's set wrote at time 0 under key k with timeout ttl.
Filled(k, ttl) ==
    [doc |-> dumps(PyStr(k)).doc, exp |-> ttl, orig |-> PyStr(k), at |-> 0, ttl |-> ttl]

\* The keys that may have been written with a timeout of one second.
ShortLived == {list_cache_key(3, 2, 10), detail_cache_key(3)}

\* Any part of ClearKeys is in the store, each key written at time 0 with
\* get_news_list's timeout of 300, or with one second if it is ShortLived.
InitClear ==
    /\ \E present \in SUBSET ClearKeys :
       \E short \in SUBSET (present \cap ShortLived) :
          store = [k \in present |->
                      Filled(k, IF k \in short THEN 1 ELSE ListTimeout)]
    /\ now = 0
    /\ deleted = {}
    /\ last = NoCall
    /\ pc = [t \in Threads |-> "idle"]
    /\ loc = [t \in Threads |-> NoLocals]
    /\ calls = 0
    /\ db = InitialNews

NextClear ==
    \/ \E pattern \in Patterns, o \in WriteReplies : C_Keys(pattern, o)
    \/ \E o \in WriteReplies : C_Delete(o)
    \/ Tick

SpecClear == InitClear /\ [][NextClear]_vars

\* Key k starts with the characters of prefix.
HasPrefix(k, prefix) ==
    Len(k) >= Len(prefix) /\ SubSeq(k, 1, Len(prefix)) = prefix

\* Pattern p is a literal prefix followed by one '*'.
IsPrefixPattern(p) ==
    /\ Len(p) >= 1
    /\ Ch(p, Len(p)) = "*"
    /\ \A i \in 1..(Len(p) - 1) : Ch(p, i) \notin {"*", "?"}

\* Key k matches pattern p: for a prefix pattern, k is under the prefix.
Matches(p, k) ==
    IF IsPrefixPattern(p) THEN HasPrefix(k, SubSeq(p, 1, Len(p) - 1)) ELSE Glob(p, k)

\* C8: a clear_cache with a pattern other than "*" that answers 200 has
\* removed every key that matched the pattern and has left every other key
\* with the entry it had.
C8_ClearsExactlyMatching ==
    (last.op = "clear_cache" /\ last.pattern # "*" /\ last.code = 200) =>
        \A k \in DOMAIN last.before :
            IF Matches(last.pattern, k)
            THEN ~Live(store, now, k)
            ELSE k \in DOMAIN store /\ store[k] = last.before[k]

C8_Witness ==
    /\ last.op = "clear_cache"
    /\ last.pattern = "news:list:category_3:*"
    /\ last.code = 200
    /\ last.cleared = 2
    /\ DOMAIN last.before = ClearKeys
    /\ DOMAIN store = ClearKeys \ {list_cache_key(3, 1, 10), list_cache_key(3, 2, 10)}


\* C18: clear_cache never raises. With pattern "*" and the store answering,
\* no key is left; with another pattern that no key of the store matches,
\* the store is as it was; and whenever a round trip to the store fails the
\* response has code 500.
C18_ClearNeverRaises ==
    last.op = "clear_cache" =>
        /\ ~last.raised
        /\ last.code = IF last.failed THEN 500 ELSE 200
        /\ (last.pattern = "*" /\ ~last.failed) => store = <<>>
        /\ (last.pattern # "*" /\ \A k \in DOMAIN last.before :
                                     Live(last.before, last.began, k)
                                         => ~Matches(last.pattern, k))
               => store = last.before

C18_Witness ==
    /\ last.op = "clear_cache"
    /\ last.pattern = "*"
    /\ last.failed
    /\ ~last.raised
    /\ last.code = 500
    /\ DOMAIN store = ClearKeys

----------------------------------------------------------------------------
(* create_news, update_news and delete_news: the commit and, after it, one  *)
(* redis_cache.delete per key.                                              *)

\* range(1, 6) and the page size written into the keys the handlers delete.
InvalidatedPages == 5
InvalidatedPageSize == 10

\* The list keys one `for page in range(1, 6)` loop deletes, with pages 1..4
\* only.
page_keys_short(category_id) ==
    [page \in 1..(InvalidatedPages - 1) |->
        list_cache_key(category_id, page, InvalidatedPageSize)]

\* The list keys one `for page in range(1, 6)` loop deletes, in order.
page_keys(category_id) ==
    [page \in 1..InvalidatedPages |->
        list_cache_key(category_id, page, InvalidatedPageSize)]

\* The keys a writing handler with locals l deletes, in the order of its
\* redis_cache.delete calls.
invalidation_keys(l) ==
    IF l.op = "create_news"
    THEN page_keys(l.category_id)
    ELSE IF l.op = "update_news"
    THEN <<detail_cache_key(l.id)>> \o page_keys(l.old_category_id)
            \o (IF l.category_id # l.old_category_id
                THEN page_keys(l.category_id) ELSE <<>>)
    ELSE <<detail_cache_key(l.id)>> \o page_keys(l.category_id)

\* The id the table gives a new row.
next_id(rows) ==
    IF rows = <<>> THEN 1
    ELSE 1 + CHOOSE m \in {rows[i].id : i \in 1..Len(rows)} :
                 \A i \in 1..Len(rows) : rows[i].id <= m

\* for key, value in news_data.dict(exclude_unset=True).items():
\*     setattr(news, key, value)
apply_update(news, news_data) ==
    [f \in DOMAIN news |-> IF f \in DOMAIN news_data THEN news_data[f] ELSE news[f]]

\* The table with the row of that id replaced by news.
Replaced(rows, news) ==
    [i \in 1..Len(rows) |-> IF rows[i].id = news.id THEN news ELSE rows[i]]

\* The table without the row of that id.
Removed(rows, id) == SelectSeq(rows, LAMBDA n : n.id # id)

\* {"code": 200, "message": ..., "data": {"id": new_news.id}} and the
\* {"code": 200, "message": ...} of update_news and delete_news.
response_written(l) ==
    IF l.op = "create_news"
    THEN PyDict(<< <<PyStr("code"), PyInt(200)>>,
                   <<PyStr("message"), PyStr("created")>>,
                   <<PyStr("data"), PyDict(<< <<PyStr("id"), PyInt(l.id)>> >>)>> >>)
    ELSE PyDict(<< <<PyStr("code"), PyInt(200)>>,
                   <<PyStr("message"),
                     PyStr(IF l.op = "update_news" THEN "updated" ELSE "deleted")>> >>)

\* A handler that deletes the keys before it commits.
step_after_eager(step) ==
    CASE step = "query" -> "m_delete"
      [] step = "delete" -> "m_commit"
      [] step = "commit" -> "done"

\* The order of a writing handler's steps: the query, the commit, the
\* deletes, the return.
step_after(step) ==
    CASE step = "query" -> "m_commit"
      [] step = "commit" -> "m_delete"
      [] step = "delete" -> "done"

\* The locals of a writing handler at its start. news is the row the query
\* loaded, category_id its news.category_id. db0 and store0 are the
\* table and the store it began with, kept until its commit; issued counts its redis_cache.delete
\* calls, failed tells that one of them returned False, committed that
\* db.commit() has run, early the deletes issued before it.
WriterLocals(op, id, news_data) ==
    [op |-> op, id |-> id, news_data |-> news_data, news |-> <<>>,
     old_category_id |-> 0, category_id |-> 0,
     issued |-> 0, failed |-> FALSE, committed |-> FALSE, early |-> 0,
     code |-> 0, ret |-> PyNone, db0 |-> db, store0 |-> store]

\* What reaching pc label `next` makes of locals l: the response at the
\* return.
Arrive(l, next) ==
    IF next = "done" THEN [l EXCEPT !.code = 200, !.ret = response_written(l)] ELSE l

\* create_news up to its first redis_cache.delete: db.add(new_news),
\* db.commit(), db.refresh(new_news).
Create_Commit(t, news_data) ==
    /\ pc[t] \in {"idle", "done"}
    /\ calls < MaxCalls
    /\ calls' = calls + 1
    /\ \E new_news \in {News(next_id(db), news_data.title, news_data.category_id,
                             PyNone)} :
          /\ db' = Append(db, new_news)
          /\ loc' = [loc EXCEPT ![t] =
                        [WriterLocals("create_news", new_news.id, news_data)
                            EXCEPT !.category_id = news_data.category_id,
                                   !.old_category_id = news_data.category_id,
                                   !.committed = TRUE,
                                   !.db0 = <<>>, !.store0 = <<>>]]
    /\ pc' = [pc EXCEPT ![t] = "m_delete"]
    /\ UNCHANGED <<store, now, deleted, last>>

\* update_news and delete_news up to the commit: the query and
\* `if not news: return {"code": 404, ...}`.
Find(t, op, id, news_data) ==
    /\ pc[t] \in {"idle", "done"}
    /\ calls < MaxCalls
    /\ calls' = calls + 1
    /\ \E found \in {query_news(db, id)} :
       \E l \in {WriterLocals(op, id, news_data)} :
          IF found = <<>>
          THEN /\ pc' = [pc EXCEPT ![t] = "done"]
               /\ loc' = [loc EXCEPT ![t] =
                             [l EXCEPT !.code = 404, !.ret = response_not_found]]
          ELSE /\ pc' = [pc EXCEPT ![t] = step_after("query")]
               /\ loc' = [loc EXCEPT ![t] =
                             [l EXCEPT !.news = found[1],
                                       !.old_category_id = found[1].category_id,
                                       !.category_id = found[1].category_id]]
    /\ UNCHANGED <<db, store, now, deleted, last>>

Update_Query(t, id, news_data) == Find(t, "update_news", id, news_data)

Delete_Query(t, id) == Find(t, "delete_news", id, <<>>)

\* update_news: the setattr loop, db.commit() and db.refresh(news);
\* delete_news: db.delete(news) and db.commit().
Commit(t) ==
    /\ pc[t] = "m_commit"
    /\ \E next \in {step_after("commit")} :
          /\ IF loc[t].op = "update_news"
             THEN \E news \in {apply_update(loc[t].news, loc[t].news_data)} :
                     /\ db' = Replaced(db, news)
                     /\ loc' = [loc EXCEPT ![t] =
                                   Arrive([@ EXCEPT !.news = news,
                                                    !.category_id = news.category_id,
                                                    !.committed = TRUE,
                                                    !.db0 = <<>>, !.store0 = <<>>],
                                          next)]
             ELSE /\ db' = Removed(db, loc[t].news.id)
                  /\ loc' = [loc EXCEPT ![t] =
                                Arrive([@ EXCEPT !.committed = TRUE,
                                                 !.db0 = <<>>, !.store0 = <<>>],
                                       next)]
          /\ pc' = [pc EXCEPT ![t] = next]
    /\ UNCHANGED <<store, now, deleted, last, calls>>

\* The next redis_cache.delete(cache_key) of a writing handler and, after
\* the last one, its return. deleted gains the key when the delete removed
\* an entry.
Invalidate(t, o) ==
    /\ pc[t] = "m_delete"
    /\ \E keys \in {invalidation_keys(loc[t])} :
       \E r \in {RedisCache_delete(store, keys[loc[t].issued + 1], o)} :
       \E next \in {IF loc[t].issued + 1 < Len(keys) THEN "m_delete"
                    ELSE step_after("delete")} :
          /\ store' = r.store
          /\ deleted' = IF r.ret /\ keys[loc[t].issued + 1] \in DOMAIN store
                        THEN deleted \cup {keys[loc[t].issued + 1]}
                        ELSE deleted
          /\ pc' = [pc EXCEPT ![t] = next]
          /\ loc' = [loc EXCEPT ![t] =
                        Arrive([@ EXCEPT !.issued = @ + 1,
                                         !.failed = @ \/ ~r.ret,
                                         !.early = IF loc[t].committed THEN @
                                                   ELSE @ + 1], next)]
    /\ UNCHANGED <<db, now, last, calls>>

----------------------------------------------------------------------------
(* SpecRace: update_news or delete_news in one request thread while         *)
(* get_news_detail runs in another.                                         *)

Updater == 1
Viewer == 2

\* The news_data given to update_news(1, news_data).
RaceUpdates == { [title |-> "edited"], [category_id |-> 2] }

\* The replies the store gives the deletes of thread t's writing handler: a
\* store that has failed one of them fails the rest of that request's.
DeleteReplies(t) ==
    IF loc[t].op \in WriteOps /\ loc[t].failed THEN {"error"} ELSE WriteReplies

NextRace ==
    \/ \E news_data \in RaceUpdates : Update_Query(Updater, 1, news_data)
    \/ Delete_Query(Updater, 1)
    \/ Commit(Updater)
    \/ \E o \in DeleteReplies(Updater) : Invalidate(Updater, o)
    \/ \E o \in WriteReplies : D_Get(Viewer, [id |-> 1], o)
    \/ D_Query(Viewer)
    \/ \E o \in WriteReplies : D_Set(Viewer, o)

SpecRace == Init /\ [][NextRace]_vars

\* Thread r's get_news_detail began after thread w's update_news of the same
\* id had returned with code 200 and every delete answered, and no writing
\* request has been made since.
ReadAfterUpdate(r, w) ==
    /\ loc[r].op = "get_news_detail"
    /\ pc[r] = "done"
    /\ loc[w].op = "update_news"
    /\ pc[w] = "done"
    /\ loc[w].code = 200
    /\ ~loc[w].failed
    /\ loc[w].id = loc[r].params.id
    /\ loc[r].writers = {}
    /\ loc[r].epoch = calls

\* C13: a get_news_detail(id) that starts after update_news(id) has returned
\* returns the updated news, whatever get_news_detail(id) calls ran while
\* the update was in progress.
C13_ReadsAfterUpdateAreFresh ==
    \A r, w \in Threads :
        ReadAfterUpdate(r, w) =>
            \E from_cache \in BOOLEAN :
                loc[r].ret = response_ok(detail_item(loc[w].news), from_cache)


\* Thread r's get_news_detail has returned, no writing request ran while it
\* did, the one writing request made so far had every delete answered, and
\* the table holds no news with the id asked for.
ReadOfMissingId(r) ==
    /\ loc[r].op = "get_news_detail"
    /\ pc[r] = "done"
    /\ loc[r].writers = {}
    /\ loc[r].epoch = calls
    /\ calls <= 1
    /\ \A w \in Threads : loc[w].op \in WriteOps => ~loc[w].failed
    /\ query_news(db, loc[r].params.id) = <<>>

\* C17: get_news_detail(id) for an id with no news in the table returns
\* code 404 and leaves the store as it found it.
C17_MissingIdGives404 ==
    \A r \in Threads :
        ReadOfMissingId(r) =>
            /\ loc[r].ret = response_not_found
            /\ store = loc[r].store0

----------------------------------------------------------------------------
(* SpecMutate: one request at a time, reading through the cache or changing *)
(* the news table.                                                          *)

Client == 1

\* The requests made of the handlers.
MutateListQueries ==
    { [category_id |-> 1, page |-> 5, page_size |-> 10],
      [category_id |-> 2, page |-> 1, page_size |-> 10],
      [category_id |-> 1, page |-> 1, page_size |-> 20] }

MutateDetailQueries == { [id |-> 1], [id |-> 4] }

Creates == { [title |-> "new", category_id |-> 1] }

Updates == { [title |-> "edited"], [category_id |-> 2] }

NextMutate ==
    \/ \E q \in MutateListQueries : L_Get(Client, q, "ok")
    \/ L_Query(Client)
    \/ L_Set(Client, "ok")
    \/ \E q \in MutateDetailQueries : D_Get(Client, q, "ok")
    \/ D_Query(Client)
    \/ D_Set(Client, "ok")
    \/ \E news_data \in Creates : Create_Commit(Client, news_data)
    \/ \E news_data \in Updates : Update_Query(Client, 1, news_data)
    \/ Delete_Query(Client, 1)
    \/ Commit(Client)
    \/ \E o \in DeleteReplies(Client) : Invalidate(Client, o)

SpecMutate == Init /\ [][NextMutate]_vars

\* Thread t's writing handler has returned code 200.
Returned(t) == loc[t].op \in WriteOps /\ pc[t] = "done" /\ loc[t].code = 200

\* The categories the request of locals l touched: the item's category and,
\* for an update that moved it, the one it had before.
Affected(l) == {l.old_category_id, l.category_id}

\* C14: when create_news, update_news or delete_news has returned code 200
\* with every delete answered by the store (one request at a time), the
\* store holds no entry under news:list:category_<c>:page_<p>:size_10 for p
\* in 1..5 and c an affected category, nor, after update_news and
\* delete_news, under news:detail:<id>.
C14_InvalidatesFirstFivePages ==
    \A t \in Threads :
        (Returned(t) /\ ~loc[t].failed) =>
            /\ \A c \in Affected(loc[t]), p \in 1..5 :
                  ~Live(store, now, list_cache_key(c, p, 10))
            /\ loc[t].op \in {"update_news", "delete_news"} =>
                  ~Live(store, now, detail_cache_key(loc[t].id))

C14_Witness ==
    \E t \in Threads :
        /\ Returned(t)
        /\ ~loc[t].failed
        /\ loc[t].op = "update_news"
        /\ loc[t].old_category_id = 1
        /\ loc[t].category_id = 2
        /\ {detail_cache_key(1), list_cache_key(1, 5, 10), list_cache_key(2, 1, 10)}
              \subseteq deleted
        /\ list_cache_key(1, 1, 20) \in DOMAIN store

\* C15: when create_news, update_news or delete_news has returned code 200
\* with every delete answered by the store (one request at a time), the
\* store holds no list entry of an affected category, whatever its page and
\* page size.
C15_NoListEntryLeft ==
    \A t \in Threads :
        (Returned(t) /\ ~loc[t].failed) =>
            \A c \in Affected(loc[t]), k \in DOMAIN store :
                HasPrefix(k, "news:list:category_" \o IntToStr(c) \o ":")
                    => ~Live(store, now, k)

\* C16: a writing handler calls no redis_cache.delete before its commit:
\* until the commit the table and the store are as the handler found them;
\* and update_news and delete_news that find no news return code 404 having
\* committed nothing, deleted nothing and changed neither.
C16_DeletesFollowCommit ==
    \A t \in Threads :
        loc[t].op \in WriteOps =>
            /\ loc[t].early = 0
            /\ (loc[t].issued > 0 => loc[t].committed)
            /\ (~loc[t].committed =>
                    /\ loc[t].issued = 0
                    /\ db = loc[t].db0
                    /\ store = loc[t].store0)
            /\ (pc[t] = "done" => loc[t].code \in {200, 404})
            /\ (loc[t].code = 404 =>
                    /\ pc[t] = "done"
                    /\ loc[t].ret = response_not_found
                    /\ ~loc[t].committed
                    /\ loc[t].issued = 0)
            /\ (loc[t].code = 200 =>
                    /\ loc[t].committed
                    /\ loc[t].issued = Len(invalidation_keys(loc[t])))

C16_Witness ==
    \E t \in Threads :
        /\ loc[t].op = "delete_news"
        /\ loc[t].code = 404
        /\ pc[t] = "done"
        /\ store # <<>>
        /\ store = loc[t].store0
        /\ db = loc[t].db0
        /\ detail_cache_key(1) \in deleted
        /\ query_news(db, 1) = <<>>

============================================================================
